---- MODULE Spec2Model ----
(***************************************************************************)
(* State-machine model of components of gnss-sdr:                          *)
(*   - gps_l5_telemetry_decoder_gs (CNAV telemetry decoder block), under   *)
(*     the specifications Spec (TOW, validity and alarm handling) and      *)
(*     SpecNav (publication of navigation data);                           *)
(*   - channel_status_msg_receiver (channel status aggregator), under the  *)
(*     specifications SpecAgg (two writers and a reader of the channel     *)
(*     map), SpecAlias (one writer and a sender that writes to an object   *)
(*     it has published) and SpecMsg (every kind of message and the reader *)
(*     of the monitor snapshot).                                           *)
(* The decoder also runs under SpecPll (carrier polarity), SpecDump (the   *)
(* dump file) and SpecSat (satellite reassignment); the aggregator also    *)
(* under SpecLock (lock discipline and progress, with fairness) and        *)
(* SpecFrame (frame conditions).  Three more classes complete the model:   *)
(* Pvt_Solution under SpecPvt, Beidou_Dnav_Ephemeris under SpecEph         *)
(* (check_t) and SpecKep, SpecKepLive (the eccentric-anomaly loop), and    *)
(* GlonassL1CaDllPllTracking under SpecTrk.                                *)
(***************************************************************************)
EXTENDS Integers, Sequences, FiniteSets, TLC

VARIABLES
    \* ---- gps_l5_telemetry_decoder_gs: fields of the block
    d_sample_counter,                 \* uint64_t, processed symbols
    d_last_valid_preamble,            \* uint64_t, the "last valid" baseline
    d_sent_tlm_failed_msg,            \* bool, alarm-sent flag
    d_flag_valid_word,                \* bool
    d_TOW_at_current_symbol_ms,       \* uint32_t
    d_TOW_at_Preamble_ms,             \* uint32_t
    d_flag_PLL_180_deg_phase_locked,  \* bool
    d_cnav_decoder,                   \* cnav_msg_decoder_t (libswiftcnav state)
    d_CNAV_Message,                   \* Gps_CNAV_Navigation_Message (assembler)
    d_satellite,                      \* PRN of the assigned satellite
    d_channel,                        \* int32_t
    d_dump,                           \* bool, the constructor's dump argument
    d_dump_file,                      \* std::ofstream: "closed" or "open"
    \* ---- the telemetry-decoder adapter in front of the block
    satellite_,                       \* PRN the adapter was given last
    \* ---- what the last call of the decoder produced
    out_items,                        \* records written to out[] (0 or 1)
    consumed_items,                   \* input items consumed, consume_each
    telemetry_to_trk,                 \* messages published on "telemetry_to_trk"
    telemetry,                        \* messages published on "telemetry"
    dump_record,                      \* the dump record of the call: "none", "written", "failed"
    \* ---- history of the decoder's run
    last_op,                          \* the operation called last
    h_in,                             \* the input sample of the last general_work call
    h_dec,                            \* what the FEC decoder handed back in that call
    h_completed,                      \* kinds the assembler completed in the last call
    h_pages,                          \* pages decoded since d_CNAV_Message was constructed
    h_dropped,                        \* pages the assembler replaced last had been given
    h_accepted,                       \* a frame was accepted, no reset() since
    h_alarms,                         \* alarms published since the last accepted frame
    h_reset_at,                       \* sample counter at the last reset(), -1 if none
    \* ---- channel_status_msg_receiver: fields of the block
    d_channel_status_map,             \* std::map<int, std::shared_ptr<Gnss_Synchro>>
    d_pvt_status,                     \* Monitor_Pvt, held by value
    d_setlock,                        \* the mutex: the threads inside its critical section
    \* ---- the Gnss_Synchro objects the shared_ptrs point to
    heap,                             \* object number -> fields; 0 is the null pointer
    \* ---- the threads calling into the aggregator
    wpc,                              \* writer -> position in msg_handler_events
    wmsg,                             \* writer -> the message being handled
    rpc,                              \* the reader's position in its getter
    rlast,                            \* the reader's iterator: last key copied
    rcopy,                            \* the map copy under construction
    rret,                             \* what the reader's last call returned
    \* ---- history of the aggregator's run
    h_committed,                      \* the map after the last completed update
    h_seen,                           \* the committed maps since the reader's call began
    h_ret_vals,                       \* fields of the returned records, at the return
    h_prev_msg,                       \* content of the message handled last
    h_committed_pvt,                  \* d_pvt_status after the last completed update
    h_last_pvt,                       \* the Monitor_Pvt of the last Monitor_Pvt message
    \* ---- Pvt_Solution: fields of the solution object
    d_latitude_d,                     \* double, degrees
    d_longitude_d,                    \* double, degrees
    d_height_m,                       \* double, metres
    d_rx_vel,                         \* arma::vec
    d_rx_dt_s,                        \* double, RX time offset
    d_valid_observations,             \* int
    b_valid_position,                 \* bool
    d_hist_latitude_d,                \* std::deque<double>, oldest first
    d_hist_longitude_d,               \* std::deque<double>
    d_hist_height_m,                  \* std::deque<double>
    d_avg_latitude_d,                 \* the mean, as <<sum, count>>
    d_avg_longitude_d,                \* the mean, as <<sum, count>>
    d_avg_height_m,                   \* the mean, as <<sum, count>>
    pvt_op,                           \* the operation of Pvt_Solution called last
    h_fixes,                          \* every fix handed to perform_pos_averaging
    \* ---- Beidou_Dnav_Ephemeris: one call of check_t
    eph_time,                         \* the argument, in seconds
    eph_corrTime,                     \* the value returned
    eph_pc,                           \* "call" before the call, "done" after it
    \* ---- Beidou_Dnav_Ephemeris: one run of the eccentric-anomaly loop
    kep_fn,                           \* the member function that runs the loop
    d_eccentricity,                   \* double, in hundredths
    kep_M,                            \* double M, in hundredths of a radian
    kep_E,                            \* double E, in hundredths of a radian
    kep_dE,                           \* double dE, in hundredths of a radian
    kep_ii,                           \* int ii, the loop variable
    kep_pc,                           \* "call", "loop", "done" or "error"
    kep_result,                       \* what the function computes from E
    h_steps,                          \* update steps performed
    h_below,                          \* steps whose change was below the threshold
    \* ---- GlonassL1CaDllPllTracking: fields of the adapter
    item_type,                        \* the configured <role>.item_type
    tracking_,                        \* the block pointer: "null" or "block"
    channel_,                         \* unsigned int
    trk_pc,                           \* "new", "ready" or "undefined"
    trk_op,                           \* the member function called last
    trk_ret                           \* what get_left_block / get_right_block returned

decVars == <<d_sample_counter, d_last_valid_preamble, d_sent_tlm_failed_msg,
             d_flag_valid_word, d_TOW_at_current_symbol_ms, d_TOW_at_Preamble_ms,
             d_flag_PLL_180_deg_phase_locked, d_cnav_decoder, d_CNAV_Message,
             d_satellite, d_channel, d_dump, d_dump_file, satellite_, out_items,
             consumed_items,
             telemetry_to_trk, telemetry, dump_record,
             last_op, h_in, h_dec, h_completed, h_pages, h_dropped, h_accepted, h_alarms, h_reset_at>>

aggVars == <<d_channel_status_map, d_pvt_status, d_setlock, heap, wpc, wmsg, rpc,
             rlast, rcopy, rret, h_committed, h_seen, h_ret_vals, h_prev_msg,
             h_committed_pvt, h_last_pvt>>

msgHist == <<h_prev_msg, h_committed_pvt, h_last_pvt>>

pvtVars == <<d_latitude_d, d_longitude_d, d_height_m, d_rx_vel, d_rx_dt_s,
             d_valid_observations, b_valid_position, d_hist_latitude_d,
             d_hist_longitude_d, d_hist_height_m, d_avg_latitude_d,
             d_avg_longitude_d, d_avg_height_m, pvt_op, h_fixes>>

ephVars == <<eph_time, eph_corrTime, eph_pc>>

kepVars == <<kep_fn, d_eccentricity, kep_M, kep_E, kep_dE, kep_ii, kep_pc,
             kep_result, h_steps, h_below>>

trkVars == <<item_type, tracking_, channel_, trk_pc, trk_op, trk_ret>>

libVars == <<pvtVars, ephVars, kepVars, trkVars>>

vars == <<decVars, aggVars, libVars>>

----------------------------------------------------------------------------
(* Bounds of the model *)

\* Stand-in for the program's 10 * 300 * 2 = 6000 symbols (constructor, line 58).
d_max_symbols_without_valid_frame == 2

\* delay is drawn from 0..MaxDelay.
MaxDelay == 2

\* The values of msg.tow, the PRNs and channel numbers handed to
\* set_satellite / set_channel, and the carrier phases of the input samples,
\* in units of GPS_L5_PI.
TowFields == {0, 1}
PRNs == {1, 2}
Phases == {0, 1}

\* general_work is called at most MaxSamples times: room for an alarm, an
\* accepted frame and a second full loss episode.
MaxSamples == 2 * d_max_symbols_without_valid_frame + 2

\* Under SpecNav general_work is called at most MaxPages times: room for a
\* page before a reassignment and a whole ephemeris after it.
MaxPages == 4

\* The senders allocate at most MaxObjs Gnss_Synchro objects.
MaxObjs == 2

(* Program constants *)
GPS_L5I_SYMBOL_PERIOD_MS == 10

Abs(x) == IF x < 0 THEN -x ELSE x

----------------------------------------------------------------------------
(* Gps_CNAV_Navigation_Message, the message assembler.  Its code is not    *)
(* among the sources; it is modelled from the specification: a message     *)
(* becomes ready once all pages it needs have been received, and reading   *)
(* the ready flag clears it.                                               *)

PageKinds == {"eph1", "eph2", "iono", "utc", "other"}
NavKinds == {"ephemeris", "iono", "utc_model"}

Gps_CNAV_Navigation_Message ==
    [eph_pages |-> {}, iono_ready |-> FALSE, utc_ready |-> FALSE]

decode_page(m, page) ==
    CASE page = "eph1" -> [m EXCEPT !.eph_pages = @ \cup {1}]
      [] page = "eph2" -> [m EXCEPT !.eph_pages = @ \cup {2}]
      [] page = "iono" -> [m EXCEPT !.iono_ready = TRUE]
      [] page = "utc" -> [m EXCEPT !.utc_ready = TRUE]
      [] OTHER -> m

Ready(m, kind) ==
    CASE kind = "ephemeris" -> m.eph_pages = {1, 2}
      [] kind = "iono" -> m.iono_ready
      [] kind = "utc_model" -> m.utc_ready

have_new_ephemeris(m) ==
    IF Ready(m, "ephemeris")
    THEN [ret |-> TRUE, msg |-> [m EXCEPT !.eph_pages = {}]]
    ELSE [ret |-> FALSE, msg |-> m]

have_new_iono(m) ==
    IF Ready(m, "iono")
    THEN [ret |-> TRUE, msg |-> [m EXCEPT !.iono_ready = FALSE]]
    ELSE [ret |-> FALSE, msg |-> m]

have_new_utc_model(m) ==
    IF Ready(m, "utc_model")
    THEN [ret |-> TRUE, msg |-> [m EXCEPT !.utc_ready = FALSE]]
    ELSE [ret |-> FALSE, msg |-> m]

----------------------------------------------------------------------------
(* gps_l5_telemetry_decoder_gs *)

\* The input sample in[0]; the carrier phase is counted in units of GPS_L5_PI.
Samples == [Flag_valid_symbol_output : BOOLEAN, Carrier_phase_rads : Phases]

\* What cnav_msg_decoder_add_symbol hands back: whether a frame was completed
\* and, if so, msg.tow, delay, the two inversion flags and the page decoded.
NoFrame ==
    [ok |-> FALSE, tow |-> 0, delay |-> 0, part1_invert |-> FALSE,
     part2_invert |-> FALSE, page |-> "other"]

Frames ==
    [ok : {TRUE}, tow : TowFields, delay : 0..MaxDelay, part1_invert : BOOLEAN,
     part2_invert : BOOLEAN, page : PageKinds]

Decodes == {NoFrame} \cup Frames

NoSample == [Flag_valid_symbol_output |-> FALSE, Carrier_phase_rads |-> 0]

\* The inputs of Spec: every TOW and delay, plain pages, one carrier phase,
\* one satellite and one channel.
TowPRNs == {1}
Channels == {0}
TowSamples == {in \in Samples : in.Carrier_phase_rads = 0}
TowDecodes ==
    {dec \in Decodes : ~dec.part1_invert /\ ~dec.part2_invert /\ dec.page = "other"}

\* The inputs of SpecNav: every page kind, frames of one TOW field.
NavSamples == {in \in Samples : in.Carrier_phase_rads = 0}
NavDecodes ==
    {dec \in Decodes : ~dec.part1_invert /\ ~dec.part2_invert /\ dec.tow = 0
                        /\ dec.delay = 0}

\* The inputs of SpecPll: every carrier phase, frames with every combination
\* of the two inversion flags.
PllSamples == Samples
PllDecodes ==
    {dec \in Decodes : dec.tow = 0 /\ dec.delay = 0 /\ dec.page = "other"}

\* The inputs of SpecDump: frames of one TOW field and delay.
DumpSamples == TowSamples
DumpDecodes == {dec \in TowDecodes : dec.tow = 0 /\ dec.delay = 0}

cnav_msg_decoder_init == [symbols |-> 0, part1_invert |-> FALSE, part2_invert |-> FALSE]

\* The decoder state after one more symbol; the inversion flags are those of
\* the frame when one is completed.
cnav_msg_decoder_add_symbol(st, dec) ==
    [symbols |-> st.symbols + 1,
     part1_invert |-> IF dec.ok THEN dec.part1_invert ELSE st.part1_invert,
     part2_invert |-> IF dec.ok THEN dec.part2_invert ELSE st.part2_invert]

\* The alarm test without its latch: d_sent_tlm_failed_msg is not consulted.
TlmFailed_NoLatch(counter, last, sent) ==
    (counter - last) > d_max_symbols_without_valid_frame

\* The alarm test that fires one symbol early.
TlmFailed_OneEarly(counter, last, sent) ==
    ~sent /\ (counter - last) >= d_max_symbols_without_valid_frame

\* Lines 155-163: is the alarm published in this call?
TlmFailed(counter, last, sent) ==
    (sent = FALSE) /\ ((counter - last) > d_max_symbols_without_valid_frame)

\* The publication with the test of have_new_iono() dropped: the ionospheric
\* model is published on every page.
PublishNavData_IonoAlways(m) ==
    LET e == have_new_ephemeris(m)
        i == have_new_iono(e.msg)
        u == have_new_utc_model(i.msg)
    IN  [pub |-> (IF e.ret THEN <<"ephemeris">> ELSE <<>>)
                 \o <<"iono">>
                 \o (IF u.ret THEN <<"utc_model">> ELSE <<>>),
         msg |-> u.msg]

\* Lines 190-209: the three reads of the assembler and what they publish.
PublishNavData(m) ==
    LET e == have_new_ephemeris(m)
        i == have_new_iono(e.msg)
        u == have_new_utc_model(i.msg)
    IN  [pub |-> (IF e.ret THEN <<"ephemeris">> ELSE <<>>)
                 \o (IF i.ret THEN <<"iono">> ELSE <<>>)
                 \o (IF u.ret THEN <<"utc_model">> ELSE <<>>),
         msg |-> u.msg]

\* Publication held back until the frame's TOW has been accepted.
Published_AfterTowCheck(pub, accepted) == IF accepted THEN pub ELSE <<>>

\* Lines 190-209 come before the TOW check of lines 219-235: what the
\* assembler completed is published whatever the check decides.
Published(pub, accepted) == pub

\* The projection without the 12 symbols of the encoder's transitory.
ProjectedTOW_NoTransitory(tow, delay) ==
    (tow * 6000) + (delay * GPS_L5I_SYMBOL_PERIOD_MS)

\* Line 221.  The fields are uint32_t; within the bounds of the model every
\* value stays far below 2^32, so no operation wraps.
ProjectedTOW(tow, delay) ==
    (tow * 6000) + ((delay + 12) * GPS_L5I_SYMBOL_PERIOD_MS)

\* A frame whose projected TOW is compared with a stored TOW of 0 as well.
TowMismatch_NoFirstDecode(last, new) ==
    Abs(new - last) > GPS_L5I_SYMBOL_PERIOD_MS

\* Line 222: the TOW consistency test.
TowMismatch(last, new) ==
    last # 0 /\ Abs(new - last) > GPS_L5I_SYMBOL_PERIOD_MS

\* The frame update with the baseline moved on a rejected frame too.
FrameUpdate_RejectMovesBaseline(dec, tow, valid, last, counter) ==
    LET new == ProjectedTOW(dec.tow, dec.delay)
    IN  IF TowMismatch(tow, new)
        THEN [tow |-> 0, valid |-> FALSE, last |-> counter, accepted |-> FALSE]
        ELSE [tow |-> new, valid |-> TRUE, last |-> counter, accepted |-> TRUE]

\* Lines 211-235: stored TOW, validity and baseline after a completed frame.
FrameUpdate(dec, tow, valid, last, counter) ==
    LET new == ProjectedTOW(dec.tow, dec.delay)
    IN  IF TowMismatch(tow, new)
        THEN [tow |-> 0, valid |-> FALSE, last |-> last, accepted |-> FALSE]
        ELSE [tow |-> new, valid |-> TRUE, last |-> counter, accepted |-> TRUE]

\* The extrapolation that moves the stored TOW on while the flag is false.
NoFrameUpdate_AdvanceInvalid(in, tow, valid) ==
    IF valid
    THEN [tow |-> tow + GPS_L5I_SYMBOL_PERIOD_MS,
          valid |-> in.Flag_valid_symbol_output]
    ELSE [tow |-> IF tow = 0 THEN 0 ELSE tow + GPS_L5I_SYMBOL_PERIOD_MS,
          valid |-> valid]

\* The extrapolation with the test of Flag_valid_symbol_output left out.
NoFrameUpdate_KeepValid(in, tow, valid) ==
    IF valid
    THEN [tow |-> tow + GPS_L5I_SYMBOL_PERIOD_MS, valid |-> valid]
    ELSE [tow |-> tow, valid |-> valid]

\* Lines 237-247: stored TOW and validity when no frame was completed.
NoFrameUpdate(in, tow, valid) ==
    IF valid
    THEN [tow |-> tow + GPS_L5I_SYMBOL_PERIOD_MS,
          valid |-> in.Flag_valid_symbol_output]
    ELSE [tow |-> tow, valid |-> valid]

\* Lines 259-277: the dump record of an emitted symbol.  Nothing is written
\* with dump disabled; a write to a file that is not open fails, and a write
\* to an open file fails or not (fails).
DumpWrite(dump, file, fails) ==
    IF ~dump THEN "none"
    ELSE IF file = "closed" \/ fails THEN "failed"
    ELSE "written"

\* A handler that lets the failure of a write leave general_work.
DumpCaught_Propagates(outcome) == outcome # "failed"

\* Lines 263-276: the writes are inside a try block whose handler logs the
\* failure; control reaches line 280 whatever the outcome.
DumpCaught(outcome) == TRUE

\* A record that carries the input's carrier phase as it came.
OutputRecord_NoCorrection(in, tow, valid, pll180) ==
    [TOW_at_current_symbol_ms |-> tow,
     Flag_valid_word |-> valid,
     Carrier_phase_rads |-> in.Carrier_phase_rads]

\* Lines 249-257 and 280: the record copied to out[0].
OutputRecord(in, tow, valid, pll180) ==
    [TOW_at_current_symbol_ms |-> tow,
     Flag_valid_word |-> valid,
     Carrier_phase_rads |-> IF pll180 THEN in.Carrier_phase_rads + 1
                            ELSE in.Carrier_phase_rads]

general_work(in, dec) ==
    /\ d_sample_counter < MaxSamples
    /\ \E fails \in (IF d_dump /\ d_dump_file = "open" THEN BOOLEAN ELSE {FALSE}) :
       LET counter == d_sample_counter + 1
           alarm == TlmFailed(counter, d_last_valid_preamble, d_sent_tlm_failed_msg)
           sent == IF alarm THEN TRUE ELSE d_sent_tlm_failed_msg
           paged == decode_page(d_CNAV_Message, dec.page)
           nav == PublishNavData(paged)
           fr == FrameUpdate(dec, d_TOW_at_current_symbol_ms, d_flag_valid_word,
                             d_last_valid_preamble, counter)
           nf == NoFrameUpdate(in, d_TOW_at_current_symbol_ms, d_flag_valid_word)
           tow == IF dec.ok THEN fr.tow ELSE nf.tow
           valid == IF dec.ok THEN fr.valid ELSE nf.valid
           pll180 == IF dec.ok THEN (dec.part1_invert \/ dec.part2_invert)
                     ELSE d_flag_PLL_180_deg_phase_locked
           accepted == dec.ok /\ fr.accepted
       IN  /\ consumed_items' = consumed_items + 1
           /\ d_sample_counter' = counter
           /\ d_sent_tlm_failed_msg' = sent
           /\ telemetry_to_trk' = IF alarm THEN <<1>> ELSE <<>>
           /\ d_cnav_decoder' = cnav_msg_decoder_add_symbol(d_cnav_decoder, dec)
           /\ d_flag_PLL_180_deg_phase_locked' = pll180
           /\ d_CNAV_Message' = IF dec.ok THEN nav.msg ELSE d_CNAV_Message
           /\ telemetry' = IF dec.ok THEN Published(nav.pub, fr.accepted) ELSE <<>>
           /\ h_completed' = IF dec.ok
                             THEN {k \in NavKinds :
                                     Ready(paged, k) /\ ~Ready(d_CNAV_Message, k)}
                             ELSE {}
           /\ d_TOW_at_Preamble_ms' = IF dec.ok THEN dec.tow * 6000
                                      ELSE d_TOW_at_Preamble_ms
           /\ d_TOW_at_current_symbol_ms' = tow
           /\ d_flag_valid_word' = valid
           /\ d_last_valid_preamble' = IF dec.ok THEN fr.last ELSE d_last_valid_preamble
           /\ dump_record' = IF valid THEN DumpWrite(d_dump, d_dump_file, fails)
                             ELSE "none"
           /\ out_items' = IF valid /\ DumpCaught(DumpWrite(d_dump, d_dump_file, fails))
                           THEN <<OutputRecord(in, tow, valid, pll180)>>
                           ELSE <<>>
           /\ h_accepted' = (accepted \/ h_accepted)
           /\ h_alarms' = IF accepted THEN 0
                          ELSE h_alarms + (IF alarm THEN 1 ELSE 0)
    /\ last_op' = "general_work"
    /\ h_in' = in
    /\ h_dec' = dec
    /\ h_pages' = IF dec.ok THEN h_pages \cup {dec.page} ELSE h_pages
    /\ UNCHANGED <<d_satellite, d_channel, d_dump, d_dump_file, satellite_, h_dropped,
                   h_reset_at, aggVars, libVars>>

\* reset() without the assignment of line 132.
ResetFields_KeepBaseline(counter, last) ==
    [last |-> last, tow |-> 0, sent |-> FALSE, valid |-> FALSE]

\* Lines 130-137.
ResetFields(counter, last) ==
    [last |-> counter, tow |-> 0, sent |-> FALSE, valid |-> FALSE]

reset ==
    /\ LET r == ResetFields(d_sample_counter, d_last_valid_preamble)
       IN  /\ d_last_valid_preamble' = r.last
           /\ d_TOW_at_current_symbol_ms' = r.tow
           /\ d_sent_tlm_failed_msg' = r.sent
           /\ d_flag_valid_word' = r.valid
    /\ last_op' = "reset"
    /\ h_in' = NoSample
    /\ h_dec' = NoFrame
    /\ h_accepted' = FALSE
    /\ h_reset_at' = d_sample_counter
    /\ out_items' = <<>>
    /\ telemetry_to_trk' = <<>>
    /\ telemetry' = <<>>
    /\ dump_record' = "none"
    /\ h_completed' = {}
    /\ UNCHANGED <<d_dump, d_dump_file, consumed_items>>
    /\ UNCHANGED <<d_sample_counter, d_TOW_at_Preamble_ms,
                   d_flag_PLL_180_deg_phase_locked, d_cnav_decoder, d_CNAV_Message,
                   d_satellite, d_channel, satellite_, h_pages, h_dropped, h_alarms,
                   aggVars, libVars>>

\* set_satellite() leaving the assembler as it is (without line 97).
SetSatelliteMessage_Keep(m) == m

\* Line 97: d_CNAV_Message = Gps_CNAV_Navigation_Message().
SetSatelliteMessage(m) == Gps_CNAV_Navigation_Message

\* Lines 93-98 of the block; the adapter's field is left to the caller.
\* A set_satellite() that starts the new satellite without a TOW.
SetSatelliteFields_Reset(tow, valid) == [tow |-> 0, valid |-> FALSE]

\* Lines 93-98 assign d_satellite and d_CNAV_Message and nothing else: the
\* stored TOW and the valid-word flag are what they were.
SetSatelliteFields(tow, valid) == [tow |-> tow, valid |-> valid]

block_set_satellite(prn) ==
    /\ d_satellite' = prn
    /\ LET f == SetSatelliteFields(d_TOW_at_current_symbol_ms, d_flag_valid_word)
       IN  /\ d_TOW_at_current_symbol_ms' = f.tow
           /\ d_flag_valid_word' = f.valid
    /\ d_CNAV_Message' = SetSatelliteMessage(d_CNAV_Message)
    /\ h_pages' = {}
    /\ h_dropped' = h_pages
    /\ last_op' = "set_satellite"
    /\ h_in' = NoSample
    /\ h_dec' = NoFrame
    /\ out_items' = <<>>
    /\ telemetry_to_trk' = <<>>
    /\ telemetry' = <<>>
    /\ dump_record' = "none"
    /\ UNCHANGED <<d_dump, d_dump_file, consumed_items>>
    /\ h_completed' = {}
    /\ UNCHANGED <<d_sample_counter, d_last_valid_preamble, d_sent_tlm_failed_msg,
                   d_TOW_at_Preamble_ms, d_flag_PLL_180_deg_phase_locked,
                   d_cnav_decoder, d_channel, h_accepted, h_alarms, h_reset_at,
                   aggVars, libVars>>

\* set_satellite called on the block directly.
set_satellite(prn) ==
    /\ block_set_satellite(prn)
    /\ UNCHANGED satellite_

\* set_satellite called on a telemetry-decoder adapter
\* (BeidouB3iTelemetryDecoder / GalileoE1BTelemetryDecoder): it stores the
\* satellite and forwards the call to its block.
TelemetryDecoder_set_satellite(prn) ==
    /\ satellite_' = prn
    /\ block_set_satellite(prn)

\* Lines 107-126: with dump enabled and the file not open, the file is opened,
\* which succeeds or fails; a failure is caught and logged.
OpenDumpFile(dump, file, opens) ==
    IF dump /\ file = "closed" /\ opens THEN "open" ELSE file

\* Lines 101-127.
set_channel(channel) ==
    /\ d_channel' = channel
    /\ d_CNAV_Message' = Gps_CNAV_Navigation_Message
    /\ \E opens \in (IF d_dump /\ d_dump_file = "closed" THEN BOOLEAN ELSE {FALSE}) :
          d_dump_file' = OpenDumpFile(d_dump, d_dump_file, opens)
    /\ UNCHANGED <<d_dump, consumed_items>>
    /\ dump_record' = "none"
    /\ h_pages' = {}
    /\ h_dropped' = h_pages
    /\ last_op' = "set_channel"
    /\ h_in' = NoSample
    /\ h_dec' = NoFrame
    /\ out_items' = <<>>
    /\ telemetry_to_trk' = <<>>
    /\ telemetry' = <<>>
    /\ h_completed' = {}
    /\ UNCHANGED <<d_sample_counter, d_last_valid_preamble, d_sent_tlm_failed_msg,
                   d_flag_valid_word, d_TOW_at_current_symbol_ms,
                   d_TOW_at_Preamble_ms, d_flag_PLL_180_deg_phase_locked,
                   d_cnav_decoder, d_satellite, satellite_, h_accepted, h_alarms,
                   h_reset_at, aggVars, libVars>>

----------------------------------------------------------------------------
(* channel_status_msg_receiver *)

Writers == {"w1", "w2"}
Reader == "r"
ChannelIDs == {0, 1}
Dopplers == {0, 1}
PvtTimes == {1, 2}
PvtWeeks == {1, 2}

\* The fields of a Gnss_Synchro the aggregator reads, and one it only carries.
Gnss_Synchro ==
    [Channel_ID : ChannelIDs, Flag_valid_pseudorange : BOOLEAN,
     Carrier_Doppler_hz : Dopplers]

\* Two of the fields of a Monitor_Pvt.
Monitor_Pvt == [RX_time : PvtTimes, week : PvtWeeks]

NoPvt == [RX_time |-> 0, week |-> 0]

\* A message on the "status" port: a shared_ptr<Gnss_Synchro> (ptr), a
\* shared_ptr<Monitor_Pvt> (the Monitor_Pvt it points to is val), a payload of
\* another type ("unknown"), or one whose any_cast throws ("badcast").
NoMsg == [type |-> "none", ptr |-> 0, val |-> NoPvt]
SynchroMsg(o) == [type |-> "synchro", ptr |-> o, val |-> NoPvt]
PvtMsg(v) == [type |-> "pvt", ptr |-> 0, val |-> v]
UnknownTypes == {"unknown", "badcast"}
UnknownMsg(ty) == [type |-> ty, ptr |-> 0, val |-> NoPvt]

EmptyMap == [c \in {} |-> 0]

\* What a message carries: its type and the record or snapshot pointed to.
NoRec == [Channel_ID |-> -1]
Content(msg) ==
    [type |-> msg.type,
     rec |-> IF msg.type = "synchro" THEN heap[msg.ptr] ELSE NoRec,
     val |-> msg.val]

\* std::map::operator[]: a missing key is inserted with a null shared_ptr.
MapIndex(m, k) ==
    IF k \in DOMAIN m THEN m
    ELSE [c \in DOMAIN m \cup {k} |-> IF c = k THEN 0 ELSE m[c]]

\* An assignment that, like std::map::insert, keeps an entry already there.
MapStore_KeepExisting(m, k, o) ==
    IF m[k] = 0 THEN [m EXCEPT ![k] = o] ELSE m

\* An assignment that removes an entry that was already there.
MapStore_Toggle(m, k, o) ==
    IF m[k] = 0 THEN [m EXCEPT ![k] = o] ELSE [c \in DOMAIN m \ {k} |-> m[c]]

\* Line 157: the assignment to the reference operator[] returned.
MapStore(m, k, o) == [m EXCEPT ![k] = o]

\* An erase that empties the map.
MapErase_Clear(m, k) == EmptyMap

\* Line 161: std::map::erase(key).
MapErase(m, k) == [c \in DOMAIN m \ {k} |-> m[c]]

\* A getter that enters without waiting for the mutex.
ReaderCanLock_NoMutex == TRUE

\* Lines 196 and 203: scoped_lock waits until no thread holds d_setlock.
ReaderCanLock == d_setlock = {}

\* A scoped_lock whose destructor leaves the mutex held.
Release_Keep(lock, t) == lock

\* Lines 191, 198 and 205: the scoped_lock goes out of scope.
Release(lock, t) == lock \ {t}

\* A handler that does not wait for the mutex.
WriterCanLock_NoMutex == TRUE

\* Line 147: scoped_lock waits until no thread holds d_setlock.
WriterCanLock == d_setlock = {}

\* A sender makes a new Gnss_Synchro and publishes a shared_ptr to it.
SendNewSynchro(t, rec) ==
    /\ wpc[t] = "idle"
    /\ Len(heap) < MaxObjs
    /\ heap' = Append(heap, rec)
    /\ wmsg' = [wmsg EXCEPT ![t] = SynchroMsg(Len(heap) + 1)]
    /\ wpc' = [wpc EXCEPT ![t] = "lock"]
    /\ UNCHANGED <<d_channel_status_map, d_pvt_status, d_setlock, rpc, rlast, rcopy,
                   rret, h_committed, h_seen, h_ret_vals, decVars, msgHist, libVars>>

\* A sender publishes again a shared_ptr it published before.
ResendSynchro(t, o) ==
    /\ wpc[t] = "idle"
    /\ o \in 1..Len(heap)
    /\ wmsg' = [wmsg EXCEPT ![t] = SynchroMsg(o)]
    /\ wpc' = [wpc EXCEPT ![t] = "lock"]
    /\ UNCHANGED <<d_channel_status_map, d_pvt_status, d_setlock, heap, rpc, rlast,
                   rcopy, rret, h_committed, h_seen, h_ret_vals, decVars, msgHist, libVars>>

SendPvt(t, v) ==
    /\ wpc[t] = "idle"
    /\ wmsg' = [wmsg EXCEPT ![t] = PvtMsg(v)]
    /\ wpc' = [wpc EXCEPT ![t] = "lock"]
    /\ UNCHANGED <<d_channel_status_map, d_pvt_status, d_setlock, heap, rpc, rlast,
                   rcopy, rret, h_committed, h_seen, h_ret_vals, decVars, msgHist, libVars>>

SendUnknown(t, ty) ==
    /\ wpc[t] = "idle"
    /\ wmsg' = [wmsg EXCEPT ![t] = UnknownMsg(ty)]
    /\ wpc' = [wpc EXCEPT ![t] = "lock"]
    /\ UNCHANGED <<d_channel_status_map, d_pvt_status, d_setlock, heap, rpc, rlast,
                   rcopy, rret, h_committed, h_seen, h_ret_vals, decVars, msgHist, libVars>>

\* A test that takes every record for one with a valid pseudorange.
HasValidPseudorange_Always(obj) == TRUE

\* Line 155: the test that decides between storing and erasing.
HasValidPseudorange(obj) == obj.Flag_valid_pseudorange = TRUE

\* An assignment that takes over RX_time only.
StorePvt_TimeOnly(old, new) == [old EXCEPT !.RX_time = new.RX_time]

\* Line 176: d_pvt_status = *monitor_pvt_obj.get(), a copy of the whole object.
StorePvt(old, new) == new

\* Line 147: msg_handler_events takes the mutex.
msg_handler_lock(t) ==
    /\ wpc[t] = "lock"
    /\ WriterCanLock
    /\ d_setlock' = d_setlock \cup {t}
    /\ wpc' = [wpc EXCEPT ![t] = "dispatch"]
    /\ UNCHANGED <<d_channel_status_map, d_pvt_status, heap, wmsg, rpc, rlast, rcopy,
                   rret, h_committed, h_seen, h_ret_vals, decVars, msgHist, libVars>>

\* Lines 151-185: the dispatch on the payload type.  For a valid Gnss_Synchro
\* it stops after operator[] has made room for the key (line 157, first half).
msg_handler_dispatch(t) ==
    /\ wpc[t] = "dispatch"
    /\ LET msg == wmsg[t]
       IN  CASE msg.type = "synchro" ->
                  LET obj == heap[msg.ptr]
                  IN  IF HasValidPseudorange(obj)
                      THEN /\ d_channel_status_map'
                                = MapIndex(d_channel_status_map, obj.Channel_ID)
                           /\ wpc' = [wpc EXCEPT ![t] = "assign"]
                           /\ UNCHANGED d_pvt_status
                      ELSE /\ d_channel_status_map'
                                = MapErase(d_channel_status_map, obj.Channel_ID)
                           /\ wpc' = [wpc EXCEPT ![t] = "unlock"]
                           /\ UNCHANGED d_pvt_status
             [] msg.type = "pvt" ->
                  /\ d_pvt_status' = StorePvt(d_pvt_status, msg.val)
                  /\ wpc' = [wpc EXCEPT ![t] = "unlock"]
                  /\ UNCHANGED d_channel_status_map
             [] msg.type = "badcast" ->
                  \* boost::bad_any_cast is thrown before anything is
                  \* written and caught at lines 187-190
                  /\ wpc' = [wpc EXCEPT ![t] = "unlock"]
                  /\ UNCHANGED <<d_channel_status_map, d_pvt_status>>
             [] OTHER ->
                  \* lines 182-185
                  /\ wpc' = [wpc EXCEPT ![t] = "unlock"]
                  /\ UNCHANGED <<d_channel_status_map, d_pvt_status>>
    /\ UNCHANGED <<d_setlock, heap, wmsg, rpc, rlast, rcopy, rret, h_committed,
                   h_seen, h_ret_vals, decVars, msgHist, libVars>>

\* Line 157, second half: the shared_ptr is assigned to the entry.
msg_handler_assign(t) ==
    /\ wpc[t] = "assign"
    /\ d_channel_status_map'
         = MapStore(d_channel_status_map, heap[wmsg[t].ptr].Channel_ID, wmsg[t].ptr)
    /\ wpc' = [wpc EXCEPT ![t] = "unlock"]
    /\ UNCHANGED <<d_pvt_status, d_setlock, heap, wmsg, rpc, rlast, rcopy, rret,
                   h_committed, h_seen, h_ret_vals, decVars, msgHist, libVars>>

\* Line 191: the handler returns and the scoped_lock releases the mutex.
msg_handler_unlock(t) ==
    /\ wpc[t] = "unlock"
    /\ d_setlock' = Release(d_setlock, t)
    /\ wpc' = [wpc EXCEPT ![t] = "idle"]
    /\ wmsg' = [wmsg EXCEPT ![t] = NoMsg]
    /\ h_committed' = d_channel_status_map
    /\ h_seen' = IF rpc = "idle" THEN h_seen ELSE h_seen \cup {d_channel_status_map}
    /\ h_prev_msg' = Content(wmsg[t])
    /\ h_committed_pvt' = d_pvt_status
    /\ h_last_pvt' = IF wmsg[t].type = "pvt" THEN wmsg[t].val ELSE h_last_pvt
    /\ UNCHANGED <<d_channel_status_map, d_pvt_status, heap, rpc, rlast, rcopy, rret,
                   h_ret_vals, decVars, libVars>>

NoReturn == [kind |-> "none", map |-> EmptyMap, pvt |-> NoPvt]

\* The reader calls get_current_status_map (line 194).
get_current_status_map_call ==
    /\ rpc = "idle"
    /\ rpc' = "map_lock"
    /\ rret' = NoReturn
    /\ h_seen' = {h_committed}
    /\ h_ret_vals' = EmptyMap
    /\ UNCHANGED <<d_channel_status_map, d_pvt_status, d_setlock, heap, wpc, wmsg,
                   rlast, rcopy, h_committed, decVars, msgHist, libVars>>

\* Line 196.
get_current_status_map_lock ==
    /\ rpc = "map_lock"
    /\ ReaderCanLock
    /\ d_setlock' = d_setlock \cup {Reader}
    /\ rpc' = "map_copy"
    /\ rlast' = -1
    /\ rcopy' = EmptyMap
    /\ UNCHANGED <<d_channel_status_map, d_pvt_status, heap, wpc, wmsg, rret,
                   h_committed, h_seen, h_ret_vals, decVars, msgHist, libVars>>

\* Line 197: the copy constructor walks the map in key order, one entry a step.
get_current_status_map_copy ==
    /\ rpc = "map_copy"
    /\ LET rest == {k \in DOMAIN d_channel_status_map : k > rlast}
       IN  IF rest = {}
           THEN /\ rpc' = "map_unlock"
                /\ UNCHANGED <<rlast, rcopy>>
           ELSE LET k == CHOOSE x \in rest : \A y \in rest : x <= y
                IN  /\ rcopy' = [c \in DOMAIN rcopy \cup {k} |->
                                   IF c = k THEN d_channel_status_map[k] ELSE rcopy[c]]
                    /\ rlast' = k
                    /\ UNCHANGED rpc
    /\ UNCHANGED <<d_channel_status_map, d_pvt_status, d_setlock, heap, wpc, wmsg,
                   rret, h_committed, h_seen, h_ret_vals, decVars, msgHist, libVars>>

\* Line 198: the copy is returned and the scoped_lock releases the mutex.
get_current_status_map_unlock ==
    /\ rpc = "map_unlock"
    /\ d_setlock' = Release(d_setlock, Reader)
    /\ rpc' = "idle"
    /\ rret' = [kind |-> "map", map |-> rcopy, pvt |-> NoPvt]
    /\ h_ret_vals' = [c \in DOMAIN rcopy |->
                        IF rcopy[c] = 0 THEN NoRec ELSE heap[rcopy[c]]]
    /\ UNCHANGED <<d_channel_status_map, d_pvt_status, heap, wpc, wmsg, rlast, rcopy,
                   h_committed, h_seen, decVars, msgHist, libVars>>

\* The reader calls get_current_status_pvt (line 201).
get_current_status_pvt_call ==
    /\ rpc = "idle"
    /\ rpc' = "pvt_lock"
    /\ rret' = NoReturn
    /\ h_ret_vals' = EmptyMap
    /\ UNCHANGED <<d_channel_status_map, d_pvt_status, d_setlock, heap, wpc, wmsg,
                   rlast, rcopy, h_committed, h_seen, decVars, msgHist, libVars>>

\* Line 203.
get_current_status_pvt_lock ==
    /\ rpc = "pvt_lock"
    /\ ReaderCanLock
    /\ d_setlock' = d_setlock \cup {Reader}
    /\ rpc' = "pvt_unlock"
    /\ UNCHANGED <<d_channel_status_map, d_pvt_status, heap, wpc, wmsg, rlast, rcopy,
                   rret, h_committed, h_seen, h_ret_vals, decVars, msgHist, libVars>>

\* Lines 204-205: d_pvt_status is copied out and the mutex released.
get_current_status_pvt_unlock ==
    /\ rpc = "pvt_unlock"
    /\ d_setlock' = Release(d_setlock, Reader)
    /\ rpc' = "idle"
    /\ rret' = [kind |-> "pvt", map |-> EmptyMap, pvt |-> d_pvt_status]
    /\ UNCHANGED <<d_channel_status_map, d_pvt_status, heap, wpc, wmsg, rlast, rcopy,
                   h_committed, h_seen, h_ret_vals, decVars, msgHist, libVars>>

\* A sender writes to a Gnss_Synchro it published earlier, through the
\* shared_ptr it kept; no handler is working on that object.
SenderMutate(o, rec) ==
    /\ o \in 1..Len(heap)
    /\ \A t \in Writers : wmsg[t].ptr # o
    /\ heap[o] # rec
    /\ heap' = [heap EXCEPT ![o] = rec]
    /\ UNCHANGED <<d_channel_status_map, d_pvt_status, d_setlock, wpc, wmsg, rpc,
                   rlast, rcopy, rret, h_committed, h_seen, h_ret_vals, decVars, msgHist, libVars>>

\* Lines 128-142: the state after construction.
AggInit ==
    /\ d_channel_status_map = EmptyMap
    /\ d_pvt_status = [RX_time |-> -1, week |-> 0]
    /\ d_setlock = {}
    /\ heap = <<>>
    /\ wpc = [t \in Writers |-> "idle"]
    /\ wmsg = [t \in Writers |-> NoMsg]
    /\ rpc = "idle"
    /\ rlast = -1
    /\ rcopy = EmptyMap
    /\ rret = NoReturn
    /\ h_committed = EmptyMap
    /\ h_seen = {}
    /\ h_ret_vals = EmptyMap
    /\ h_prev_msg = Content(NoMsg)
    /\ h_committed_pvt = d_pvt_status
    /\ h_last_pvt = NoPvt

\* The inputs of SpecAgg: two writers sending Gnss_Synchro records.
AggSynchros == {rec \in Gnss_Synchro : rec.Carrier_Doppler_hz = 0}

\* The inputs of SpecAlias: one writer sending records of one channel.
AliasWriters == {"w1"}
AliasSynchros == {rec \in Gnss_Synchro : rec.Channel_ID = 0}

\* The steps that read or write the channel map.
MapStep(W, synchros) ==
    \/ \E t \in W, rec \in synchros : SendNewSynchro(t, rec)
    \/ \E t \in W, o \in 1..MaxObjs : ResendSynchro(t, o)
    \/ \E t \in W : msg_handler_lock(t)
    \/ \E t \in W : msg_handler_dispatch(t)
    \/ \E t \in W : msg_handler_assign(t)
    \/ \E t \in W : msg_handler_unlock(t)
    \/ get_current_status_map_call
    \/ get_current_status_map_lock
    \/ get_current_status_map_copy
    \/ get_current_status_map_unlock

NextAgg == MapStep(Writers, AggSynchros)

\* The inputs of SpecMsg: two writers sending records of one channel, two
\* monitor snapshots that differ in every field, and unrecognised payloads.
MsgSynchros == {rec \in AggSynchros : rec.Channel_ID = 0}
MsgPvts == {v \in Monitor_Pvt : v.RX_time = v.week}

\* Every kind of message, and the reader of the monitor snapshot.
NextMsg ==
    \/ \E t \in Writers, rec \in MsgSynchros : SendNewSynchro(t, rec)
    \/ \E t \in Writers, v \in MsgPvts : SendPvt(t, v)
    \/ \E t \in Writers, ty \in UnknownTypes : SendUnknown(t, ty)
    \/ \E t \in Writers : msg_handler_lock(t)
    \/ \E t \in Writers : msg_handler_dispatch(t)
    \/ \E t \in Writers : msg_handler_assign(t)
    \/ \E t \in Writers : msg_handler_unlock(t)
    \/ get_current_status_pvt_call
    \/ get_current_status_pvt_lock
    \/ get_current_status_pvt_unlock

NextAlias ==
    \/ MapStep(AliasWriters, AliasSynchros)
    \/ \E o \in 1..MaxObjs, rec \in AliasSynchros : SenderMutate(o, rec)

----------------------------------------------------------------------------
(* Pvt_Solution (pvt_solution.h declares it; its behaviour is taken from   *)
(* the specification)                                                      *)

\* d_averaging_depth, the configured length of the averaging window.
AveragingDepth == 2

\* The fewest satellites that give position and clock.
MinSatellites == 4

\* The numbers of usable satellites a solve attempt is made with.
NumSats == {0, MinSatellites - 1, MinSatellites, MinSatellites + 1}

\* The solutions a solve attempt can compute: one more distinct fix than
\* the window holds.
FixValues == 1..(AveragingDepth + 1)
Solutions ==
    {[lat |-> v, lon |-> v + 10, h |-> v + 20, vel |-> v + 30, dt |-> v + 40] :
        v \in FixValues}

\* The calls of perform_pos_averaging explored: the window filled and two
\* more fixes.
MaxFixes == AveragingDepth + 2

RECURSIVE SumSeq(_)
SumSeq(q) == IF q = <<>> THEN 0 ELSE Head(q) + SumSeq(Tail(q))

\* The arithmetic mean of a window, kept exact as <<sum, count>>.
Mean(q) == <<SumSeq(q), Len(q)>>

\* The gate that accepts three satellites.
UsableFix_Three(n) == n >= MinSatellites - 1

\* The minimum-satellite gate.
UsableFix(n) == n >= MinSatellites

\* A window that drops its newest entry when it is over the depth.
TrimToDepth_Newest(hist, depth) ==
    IF Len(hist) > depth THEN SubSeq(hist, 1, depth) ELSE hist

\* The window trimmed to the averaging depth, oldest entry evicted first.
TrimToDepth(hist, depth) ==
    IF Len(hist) > depth THEN SubSeq(hist, Len(hist) - depth + 1, Len(hist))
    ELSE hist

\* One solve attempt with n usable satellites; sol is what the least-squares
\* iteration computes when the gate lets it run.  The result is stored
\* through set_rx_pos, set_rx_vel, set_valid_position and
\* set_num_valid_observations.
solve_attempt(n, sol) ==
    /\ pvt_op' = "solve_attempt"
    /\ d_valid_observations' = n
    /\ IF UsableFix(n)
       THEN /\ d_latitude_d' = sol.lat
            /\ d_longitude_d' = sol.lon
            /\ d_height_m' = sol.h
            /\ d_rx_vel' = sol.vel
            /\ d_rx_dt_s' = sol.dt
            /\ b_valid_position' = TRUE
       ELSE /\ b_valid_position' = FALSE
            /\ UNCHANGED <<d_latitude_d, d_longitude_d, d_height_m, d_rx_vel,
                           d_rx_dt_s>>
    /\ UNCHANGED <<d_hist_latitude_d, d_hist_longitude_d, d_hist_height_m,
                   d_avg_latitude_d, d_avg_longitude_d, d_avg_height_m,
                   h_fixes, ephVars, kepVars, trkVars, decVars, aggVars>>

\* perform_pos_averaging: the current geodetic fix enters the three
\* histories, each is trimmed to the depth, and the averages are recomputed.
perform_pos_averaging ==
    /\ Len(h_fixes) < MaxFixes
    /\ pvt_op' = "perform_pos_averaging"
    /\ d_hist_latitude_d' =
           TrimToDepth(Append(d_hist_latitude_d, d_latitude_d), AveragingDepth)
    /\ d_hist_longitude_d' =
           TrimToDepth(Append(d_hist_longitude_d, d_longitude_d), AveragingDepth)
    /\ d_hist_height_m' =
           TrimToDepth(Append(d_hist_height_m, d_height_m), AveragingDepth)
    /\ d_avg_latitude_d' = Mean(d_hist_latitude_d')
    /\ d_avg_longitude_d' = Mean(d_hist_longitude_d')
    /\ d_avg_height_m' = Mean(d_hist_height_m')
    /\ h_fixes' = Append(h_fixes, [lat |-> d_latitude_d, lon |-> d_longitude_d,
                                   h |-> d_height_m])
    /\ UNCHANGED <<d_latitude_d, d_longitude_d, d_height_m, d_rx_vel, d_rx_dt_s,
                   d_valid_observations, b_valid_position, ephVars, kepVars,
                   trkVars, decVars, aggVars>>

\* The solution object after construction.
PvtInit ==
    /\ d_latitude_d = 0
    /\ d_longitude_d = 0
    /\ d_height_m = 0
    /\ d_rx_vel = 0
    /\ d_rx_dt_s = 0
    /\ d_valid_observations = 0
    /\ b_valid_position = FALSE
    /\ d_hist_latitude_d = <<>>
    /\ d_hist_longitude_d = <<>>
    /\ d_hist_height_m = <<>>
    /\ d_avg_latitude_d = <<0, 0>>
    /\ d_avg_longitude_d = <<0, 0>>
    /\ d_avg_height_m = <<0, 0>>
    /\ pvt_op = "init"
    /\ h_fixes = <<>>

----------------------------------------------------------------------------
(* Beidou_Dnav_Ephemeris::check_t *)

\* Half a week, in seconds.
half_week == 302400

\* The arguments explored reach MaxHalfWeeks half weeks on either side of
\* zero; each multiple of half a week is taken with its neighbours.
MaxHalfWeeks == 5
CheckTInputs ==
    {k * half_week + d : k \in (-MaxHalfWeeks)..MaxHalfWeeks, d \in -2..2}

\* check_t without the branch for arguments below minus half a week.
check_t_UpperOnly(time) ==
    IF time > half_week THEN time - 2 * half_week ELSE time

\* Lines 37-51.  The argument is a double; whole seconds are enough to stand
\* on either side of each comparison.
check_t(time) ==
    IF time > half_week THEN time - 2 * half_week
    ELSE IF time < -half_week THEN time + 2 * half_week
    ELSE time

\* One call of check_t with the argument chosen at the start.
check_t_call ==
    /\ eph_pc = "call"
    /\ eph_corrTime' = check_t(eph_time)
    /\ eph_pc' = "done"
    /\ UNCHANGED <<eph_time, pvtVars, kepVars, trkVars, decVars, aggVars>>

\* Before any call.
EphInit ==
    /\ eph_time = 0
    /\ eph_corrTime = 0
    /\ eph_pc = "call"

\* A call pending with any of the arguments.
EphInitAny ==
    /\ eph_time \in CheckTInputs
    /\ eph_corrTime = 0
    /\ eph_pc = "call"

----------------------------------------------------------------------------
(* Beidou_Dnav_Ephemeris: the eccentric-anomaly loop of                    *)
(* sv_clock_relativistic_term and satellitePosition                        *)

\* Angles and the eccentricity are doubles; they are kept in hundredths.
Scale == 100

\* BEIDOU_DNAV_PI, in hundredths of a radian.
BEIDOU_DNAV_PI == 314

\* The bound of "for (int ii = 1; ii < 20; ii++)".
KeplerCeiling == 20

\* The 1e-12 of the convergence test: the least change that can be told
\* from none.
KeplerThreshold == 1

KeplerFunctions == {"sv_clock_relativistic_term", "satellitePosition"}

\* Mean anomalies already reduced to between 0 and 2 pi (lines 95, 154).
KeplerAnomalies == {50 * k : k \in 0..12}

\* Eccentricities: orbital ones, and ones at and above 1 that the
\* navigation message can carry but no orbit has.
KeplerEccentricities == {0, 10, 50, 90, 150, 300}

\* fmod(x, m) of <cmath>: the remainder has the sign of x.
Fmod(x, m) == IF x >= 0 THEN x % m ELSE -((-x) % m)

\* sin, by straight lines through its zeros and extremes.
Sin(x) ==
    LET r == x % (2 * BEIDOU_DNAV_PI)
        q == BEIDOU_DNAV_PI \div 2
    IN  IF r <= q THEN (r * Scale) \div q
        ELSE IF r <= 3 * q THEN ((2 * q - r) * Scale) \div q
        ELSE ((r - 4 * q) * Scale) \div q

\* cos(x) = sin(x + pi/2).
Cos(x) == Sin(x + BEIDOU_DNAV_PI \div 2)

\* Lines 104 and 163: E = M + d_eccentricity * sin(E).
KeplerUpdate(M, ecc, E) == M + (ecc * Sin(E)) \div Scale

\* A convergence test that never succeeds.
KeplerConverged_Never(dE) == FALSE

\* Lines 106 and 165: fabs(dE) < 1e-12.
KeplerConverged(dE) == Abs(dE) < KeplerThreshold

\* What the function computes from E after the loop: the relativistic term
\* (line 114), or tmp_Y and tmp_X of the true anomaly (lines 173-174).
KeplerResult(fn, ecc, E) ==
    IF fn = "sv_clock_relativistic_term"
    THEN <<(ecc * Sin(E)) \div Scale>>
    ELSE <<Sin(E), Cos(E) - ecc>>

\* Lines 98 and 157: E = M, and the loop variable starts at 1.
kepler_call ==
    /\ kep_pc = "call"
    /\ kep_E' = kep_M
    /\ kep_ii' = 1
    /\ kep_pc' = "loop"
    /\ UNCHANGED <<kep_fn, d_eccentricity, kep_M, kep_dE, kep_result, h_steps,
                   h_below, pvtVars, ephVars, trkVars, decVars, aggVars>>

\* Lines 101-111 and 160-170: the body of the loop, once.
kepler_iterate ==
    /\ kep_pc = "loop"
    /\ kep_ii < KeplerCeiling
    /\ kep_E' = KeplerUpdate(kep_M, d_eccentricity, kep_E)
    /\ kep_dE' = Fmod(kep_E' - kep_E, 2 * BEIDOU_DNAV_PI)
    /\ IF KeplerConverged(kep_dE')
       THEN kep_pc' = "break" /\ kep_ii' = kep_ii
       ELSE kep_pc' = "loop" /\ kep_ii' = kep_ii + 1
    /\ h_steps' = h_steps + 1
    /\ h_below' = IF Abs(kep_dE') < KeplerThreshold THEN h_below + 1 ELSE h_below
    /\ UNCHANGED <<kep_fn, d_eccentricity, kep_M, kep_result, pvtVars, ephVars,
                   trkVars, decVars, aggVars>>

\* Lines 113-115 and 172 on: the loop is left by break or by its bound and
\* the function goes on with E.
kepler_return ==
    /\ \/ kep_pc = "break"
       \/ kep_pc = "loop" /\ ~(kep_ii < KeplerCeiling)
    /\ kep_result' = KeplerResult(kep_fn, d_eccentricity, kep_E)
    /\ kep_pc' = "done"
    /\ UNCHANGED <<kep_fn, d_eccentricity, kep_M, kep_E, kep_dE, kep_ii,
                   h_steps, h_below, pvtVars, ephVars, trkVars, decVars,
                   aggVars>>

KepFields(fn, ecc, M) ==
    /\ kep_fn = fn
    /\ d_eccentricity = ecc
    /\ kep_M = M
    /\ kep_E = 0
    /\ kep_dE = 0
    /\ kep_ii = 0
    /\ kep_pc = "call"
    /\ kep_result = <<>>
    /\ h_steps = 0
    /\ h_below = 0

\* Before any call.
KepInit == KepFields("satellitePosition", 0, 0)

\* A call of either function pending, with any ephemeris and anomaly.
KepInitAny ==
    \E fn \in KeplerFunctions, ecc \in KeplerEccentricities,
       M \in KeplerAnomalies : KepFields(fn, ecc, M)

----------------------------------------------------------------------------
(* GlonassL1CaDllPllTracking (tracking adapter) *)

\* Values of <role>.item_type: the default and three others a
\* configuration file may hold.
ItemTypes == {"gr_complex", "cshort", "short", "byte"}

\* Arguments of set_channel.
TrackingChannels == {0, 1, 2}

\* Lines 69-86: the block is made for "gr_complex" only; for any other item
\* type the branch logs a warning and tracking_ stays the null pointer it
\* was constructed as.
MakeTracking(type) == IF type = "gr_complex" THEN "block" ELSE "null"

\* tracking_->f(): the call goes to the block if there is one.  Through a
\* null pointer the behaviour is undefined: the process is killed, or it
\* goes on in a state nothing can be said about.
Deref(ptr) == IF ptr = "block" THEN {"ready"} ELSE {"crashed", "undefined"}

\* Line 88: DLOG(INFO) << tracking_->unique_id().  glog evaluates the
\* operands of DLOG in a debug build only.
DerefInDLOG(ptr) == Deref(ptr) \cup {"ready"}

\* The adapter's member functions can be called while the process runs.
Callable == trk_pc \in {"ready", "undefined"}

\* Lines 35-97: the constructor.
GlonassL1CaDllPllTracking ==
    /\ trk_pc = "new"
    /\ tracking_' = MakeTracking(item_type)
    /\ channel_' = 0
    /\ trk_pc' \in DerefInDLOG(tracking_')
    /\ trk_op' = "GlonassL1CaDllPllTracking"
    /\ UNCHANGED <<item_type, trk_ret, pvtVars, ephVars, kepVars, decVars,
                   aggVars>>

\* Lines 105-109.
Tracking_start_tracking ==
    /\ Callable
    /\ trk_pc' \in Deref(tracking_)
    /\ trk_op' = "start_tracking"
    /\ UNCHANGED <<item_type, tracking_, channel_, trk_ret, pvtVars, ephVars,
                   kepVars, decVars, aggVars>>

\* Lines 114-118.
Tracking_set_channel(channel) ==
    /\ Callable
    /\ channel_' = channel
    /\ trk_pc' \in Deref(tracking_)
    /\ trk_op' = "set_channel"
    /\ UNCHANGED <<item_type, tracking_, trk_ret, pvtVars, ephVars, kepVars,
                   decVars, aggVars>>

\* Lines 121-124.
Tracking_set_gnss_synchro ==
    /\ Callable
    /\ trk_pc' \in Deref(tracking_)
    /\ trk_op' = "set_gnss_synchro"
    /\ UNCHANGED <<item_type, tracking_, channel_, trk_ret, pvtVars, ephVars,
                   kepVars, decVars, aggVars>>

\* Lines 145-148 and 151-154: tracking_ is returned, not dereferenced.
Tracking_get_block(side) ==
    /\ Callable
    /\ trk_ret' = tracking_
    /\ trk_op' = side
    /\ UNCHANGED <<item_type, tracking_, channel_, trk_pc, pvtVars, ephVars,
                   kepVars, decVars, aggVars>>

\* The adapter before its constructor has run, for the item type given.
TrkFields(type) ==
    /\ item_type = type
    /\ tracking_ = "null"
    /\ channel_ = 0
    /\ trk_pc = "new"
    /\ trk_op = "none"
    /\ trk_ret = "none"

TrkInit == TrkFields("gr_complex")

\* The adapter about to be constructed with any configured item type.
TrkInitAny == \E type \in ItemTypes : TrkFields(type)

----------------------------------------------------------------------------
(* Initial state and specifications *)

\* Lines 45-73: the state after construction.
DecInit(dump) ==
    /\ d_dump = dump
    /\ d_dump_file = "closed"
    /\ dump_record = "none"
    /\ consumed_items = 0
    /\ d_last_valid_preamble = 0
    /\ d_sent_tlm_failed_msg = FALSE
    /\ d_satellite = 1
    /\ d_channel = 0
    /\ satellite_ = 1
    /\ d_flag_valid_word = FALSE
    /\ d_TOW_at_current_symbol_ms = 0
    /\ d_TOW_at_Preamble_ms = 0
    /\ d_cnav_decoder = cnav_msg_decoder_init
    /\ d_CNAV_Message = Gps_CNAV_Navigation_Message
    /\ d_sample_counter = 0
    /\ d_flag_PLL_180_deg_phase_locked = FALSE
    /\ out_items = <<>>
    /\ telemetry_to_trk = <<>>
    /\ telemetry = <<>>
    /\ last_op = "init"
    /\ h_in = NoSample
    /\ h_dec = NoFrame
    /\ h_completed = {}
    /\ h_pages = {}
    /\ h_dropped = {}
    /\ h_accepted = FALSE
    /\ h_alarms = 0
    /\ h_reset_at = -1

LibInit == PvtInit /\ EphInit /\ KepInit /\ TrkInit

Init == DecInit(FALSE) /\ AggInit /\ LibInit

\* The decoder made with either value of the dump argument.
InitDump == (\E dump \in BOOLEAN : DecInit(dump)) /\ AggInit /\ LibInit

\* The ephemeris about to normalise any of the time differences.
InitEph == DecInit(FALSE) /\ AggInit /\ PvtInit /\ EphInitAny /\ KepInit /\ TrkInit

\* The ephemeris about to solve Kepler's equation.
InitKep == DecInit(FALSE) /\ AggInit /\ PvtInit /\ EphInit /\ KepInitAny /\ TrkInit

Next ==
    \/ \E in \in TowSamples, dec \in TowDecodes : general_work(in, dec)
    \/ reset
    \/ \E prn \in TowPRNs : set_satellite(prn)
    \/ \E channel \in Channels : set_channel(channel)

Spec == Init /\ [][Next]_vars

\* Navigation data: every page, with the satellite and the channel set anew
\* between pages, on the block directly or through an adapter.
NextNav ==
    \/ /\ d_sample_counter < MaxPages
       /\ \E in \in NavSamples, dec \in NavDecodes : general_work(in, dec)
    \/ \E prn \in PRNs : set_satellite(prn)
    \/ \E prn \in PRNs : TelemetryDecoder_set_satellite(prn)
    \/ \E channel \in Channels : set_channel(channel)

SpecNav == Init /\ [][NextNav]_vars

\* Carrier phases and inverted frames.
NextPll ==
    \/ \E in \in PllSamples, dec \in PllDecodes : general_work(in, dec)
    \/ reset

SpecPll == Init /\ [][NextPll]_vars

\* The inputs of SpecSat: frames of one TOW with every polarity, and two
\* satellites.
SatSamples == Samples
SatDecodes == PllDecodes

NextSat ==
    \/ \E in \in SatSamples, dec \in SatDecodes : general_work(in, dec)
    \/ \E prn \in PRNs : set_satellite(prn)
    \/ reset

SpecSat == Init /\ [][NextSat]_vars

\* The decoder with its dump file.
NextDump ==
    \/ \E in \in DumpSamples, dec \in DumpDecodes : general_work(in, dec)
    \/ \E channel \in Channels : set_channel(channel)

SpecDump == InitDump /\ [][NextDump]_vars

SpecAgg == Init /\ [][NextAgg]_vars

SpecAlias == Init /\ [][NextAlias]_vars

SpecMsg == Init /\ [][NextMsg]_vars

\* The steps inside msg_handler_events after the mutex is taken.
msg_handler_body(t) ==
    \/ msg_handler_dispatch(t)
    \/ msg_handler_assign(t)
    \/ msg_handler_unlock(t)

\* The reader's steps that take the mutex, and those that follow.
reader_lock ==
    \/ get_current_status_map_lock
    \/ get_current_status_pvt_lock

reader_body ==
    \/ get_current_status_map_copy
    \/ get_current_status_map_unlock
    \/ get_current_status_pvt_unlock

\* The inputs of SpecFrame: one writer sending Gnss_Synchro records of both
\* channels and Monitor_Pvt objects, and the reader calling both getters.
FrameWriter == "w1"

NextFrame ==
    \/ \E rec \in AggSynchros : SendNewSynchro(FrameWriter, rec)
    \/ \E v \in MsgPvts : SendPvt(FrameWriter, v)
    \/ msg_handler_lock(FrameWriter)
    \/ msg_handler_body(FrameWriter)
    \/ get_current_status_map_call
    \/ get_current_status_pvt_call
    \/ reader_lock
    \/ reader_body

SpecFrame == Init /\ [][NextFrame]_vars

\* The inputs of SpecLock: one writer sending the Gnss_Synchro records of
\* one channel and messages of unknown type, the other sending one
\* Monitor_Pvt and messages whose cast fails.
LockSynchros == MsgSynchros
LockPvts == {v \in MsgPvts : v.RX_time = 1}
LockObjs == MaxObjs - 1
SynchroWriter == "w1"
PvtWriter == "w2"

NextLock ==
    \/ /\ Len(heap) < LockObjs
       /\ \E rec \in LockSynchros : SendNewSynchro(SynchroWriter, rec)
    \/ \E v \in LockPvts : SendPvt(PvtWriter, v)
    \/ SendUnknown(SynchroWriter, "unknown")
    \/ SendUnknown(PvtWriter, "badcast")
    \/ \E t \in Writers : msg_handler_lock(t)
    \/ \E t \in Writers : msg_handler_body(t)
    \/ get_current_status_map_call
    \/ get_current_status_pvt_call
    \/ reader_lock
    \/ reader_body

\* Fair scheduling: a thread that can take a step inside a call takes it,
\* and a thread waiting for a mutex that is free again and again gets it.
\* Nothing obliges a sender or the reader to make another call.
LockFairness ==
    /\ \A t \in Writers : SF_vars(msg_handler_lock(t))
    /\ \A t \in Writers : WF_vars(msg_handler_body(t))
    /\ SF_vars(reader_lock)
    /\ WF_vars(reader_body)

SpecLock == Init /\ [][NextLock]_vars /\ LockFairness

NextPvt ==
    \/ \E n \in NumSats, sol \in Solutions : solve_attempt(n, sol)
    \/ perform_pos_averaging

SpecPvt == Init /\ [][NextPvt]_vars

NextEph == check_t_call

SpecEph == InitEph /\ [][NextEph]_vars

NextKep ==
    \/ kepler_call
    \/ kepler_iterate
    \/ kepler_return

SpecKep == InitKep /\ [][NextKep]_vars

\* The tracking adapter about to be constructed.
InitTrk == DecInit(FALSE) /\ AggInit /\ PvtInit /\ EphInit /\ KepInit /\ TrkInitAny

NextTrk ==
    \/ GlonassL1CaDllPllTracking
    \/ Tracking_start_tracking
    \/ \E channel \in TrackingChannels : Tracking_set_channel(channel)
    \/ Tracking_set_gnss_synchro
    \/ \E side \in {"get_left_block", "get_right_block"} : Tracking_get_block(side)

SpecTrk == InitTrk /\ [][NextTrk]_vars

\* The function runs in the caller's thread, which keeps running.
SpecKepLive == SpecKep /\ WF_vars(NextKep)

----------------------------------------------------------------------------
(* Properties of gps_l5_telemetry_decoder_gs *)

Emitted(items) == items # <<>>

Count(seq, x) == Cardinality({i \in 1..Len(seq) : seq[i] = x})

\* C1: two records emitted by consecutive general_work calls (no reset() or
\* other operation between them) carry TOWs exactly one symbol period apart,
\* whether or not the second call completed a frame.
C1_TowContinuity ==
    [][(last_op = "general_work" /\ last_op' = "general_work"
        /\ Emitted(out_items) /\ Emitted(out_items'))
       => (out_items'[1].TOW_at_current_symbol_ms
             - out_items[1].TOW_at_current_symbol_ms = GPS_L5I_SYMBOL_PERIOD_MS)]_vars

\* C2: after an accepted frame, while no further frame is accepted (and no
\* reset() is called), no alarm is published within the first N calls and
\* exactly one has been published once the (N+1)-th call is done, in every
\* loss episode, also one that follows an earlier alarm.
C2_AlarmRearmed ==
    h_accepted =>
        LET k == d_sample_counter - d_last_valid_preamble
        IN  /\ (k <= d_max_symbols_without_valid_frame => h_alarms = 0)
            /\ (k = d_max_symbols_without_valid_frame + 1 => h_alarms = 1)

\* C3: in a run without reset(), at most one alarm is published between two
\* consecutive accepted frames, however many symbols fail to decode.
C3_AlarmSuppressed ==
    (h_reset_at = -1) => h_alarms <= 1

\* C3 witness: no reset(), one alarm already published, and a further symbol
\* past the threshold was processed without publishing another.
C3_Witness ==
    /\ h_reset_at = -1
    /\ h_alarms = 1
    /\ last_op = "general_work"
    /\ telemetry_to_trk = <<>>
    /\ d_sample_counter - d_last_valid_preamble
         > d_max_symbols_without_valid_frame + 1

\* C7: a completed frame whose projected TOW is more than one symbol period
\* away from a non-zero stored TOW sets the stored TOW to 0 and the valid-word
\* flag to false, emits nothing, leaves the baseline where it was and does not
\* re-initialise d_cnav_decoder (it has consumed one more symbol).
C7_TowInconsistency ==
    [][(/\ last_op' = "general_work"
        /\ h_dec'.ok
        /\ d_TOW_at_current_symbol_ms # 0
        /\ Abs(ProjectedTOW(h_dec'.tow, h_dec'.delay) - d_TOW_at_current_symbol_ms)
             > GPS_L5I_SYMBOL_PERIOD_MS)
         => (/\ d_TOW_at_current_symbol_ms' = 0
             /\ d_flag_valid_word' = FALSE
             /\ out_items' = <<>>
             /\ d_last_valid_preamble' = d_last_valid_preamble
             /\ d_cnav_decoder'.symbols = d_cnav_decoder.symbols + 1
             /\ d_sample_counter' = d_sample_counter + 1)]_vars

\* C7 witness: a frame was accepted, no reset() followed, and the stored TOW
\* is 0 again after a general_work call: that call rejected a frame.
C7_Witness ==
    /\ h_accepted
    /\ last_op = "general_work"
    /\ h_dec.ok
    /\ d_TOW_at_current_symbol_ms = 0
    /\ d_flag_valid_word = FALSE
    /\ d_last_valid_preamble < d_sample_counter

\* C8: a call that completes no frame while the valid-word flag is true moves
\* the stored TOW forward by exactly one symbol period; the flag stays true
\* and a record with that TOW is emitted if the input sample is flagged valid,
\* and the flag becomes false and nothing is emitted if it is not.
C8_Extrapolation ==
    [][(last_op' = "general_work" /\ ~h_dec'.ok /\ d_flag_valid_word)
         => (/\ d_TOW_at_current_symbol_ms'
                  = d_TOW_at_current_symbol_ms + GPS_L5I_SYMBOL_PERIOD_MS
             /\ d_flag_valid_word' = h_in'.Flag_valid_symbol_output
             /\ (h_in'.Flag_valid_symbol_output
                   => /\ Len(out_items') = 1
                      /\ out_items'[1].TOW_at_current_symbol_ms
                           = d_TOW_at_current_symbol_ms'
                      /\ out_items'[1].Flag_valid_word)
             /\ (~h_in'.Flag_valid_symbol_output => out_items' = <<>>))]_vars

\* C8 witness: the call right after the one that accepted a frame (so the
\* flag was true) completed no frame and had an input sample flagged invalid:
\* the flag is false, nothing was emitted, and the stored TOW is set.
C8_Witness ==
    /\ last_op = "general_work"
    /\ h_accepted
    /\ d_sample_counter - d_last_valid_preamble = 1
    /\ ~h_dec.ok
    /\ ~h_in.Flag_valid_symbol_output
    /\ d_flag_valid_word = FALSE
    /\ out_items = <<>>
    /\ d_TOW_at_current_symbol_ms # 0

\* C9: in every call, each kind of message the assembler completed in that
\* call is published on "telemetry" exactly once and no other kind is
\* published; between calls no ready flag is left set, so nothing is
\* published again on a later page that completes nothing.
C9_PublishedExactlyOnce ==
    /\ \A k \in NavKinds :
          Count(telemetry, k) = (IF k \in h_completed THEN 1 ELSE 0)
    /\ \A k \in NavKinds : ~Ready(d_CNAV_Message, k)

\* C9 witness: an ephemeris, which takes two pages, was completed and
\* published by the last call.
C9_Witness ==
    /\ last_op = "general_work"
    /\ h_completed = {"ephemeris"}
    /\ telemetry = <<"ephemeris">>

\* C10: after reset() the stored TOW is 0, the valid-word and alarm-sent flags
\* are false and the baseline is the current sample counter; and an alarm
\* published after a reset() comes at least N+1 symbols after it.
C10_Reset ==
    /\ (last_op = "reset"
          => /\ d_TOW_at_current_symbol_ms = 0
             /\ d_flag_valid_word = FALSE
             /\ d_sent_tlm_failed_msg = FALSE
             /\ d_last_valid_preamble = d_sample_counter)
    /\ ((h_reset_at # -1 /\ telemetry_to_trk # <<>>)
          => d_sample_counter - h_reset_at
               >= d_max_symbols_without_valid_frame + 1)

\* C10 witness: a second alarm without an accepted frame in between, which
\* takes a reset() called after the first alarm was sent.
C10_Witness ==
    /\ h_reset_at > 0
    /\ telemetry_to_trk # <<>>
    /\ h_alarms = 2

\* C16: the carrier phase of an emitted record is the input sample's plus pi
\* if the last frame the FEC decoder completed left part1.invert or
\* part2.invert set, and the input sample's unchanged otherwise, also before
\* any frame was completed.  Phases are counted in units of GPS_L5_PI.
C16_PolarityCorrection ==
    (last_op = "general_work" /\ Emitted(out_items))
    => out_items[1].Carrier_phase_rads
         = h_in.Carrier_phase_rads
             + (IF d_cnav_decoder.part1_invert \/ d_cnav_decoder.part2_invert
                THEN 1 ELSE 0)

\* C16 witness: a record with the corrected phase was emitted by a call that
\* completed no frame: the inversion is the one an earlier frame reported.
C16_Witness ==
    /\ last_op = "general_work"
    /\ ~h_dec.ok
    /\ Emitted(out_items)
    /\ h_in.Carrier_phase_rads = 1
    /\ out_items[1].Carrier_phase_rads = 2
    /\ d_cnav_decoder.part2_invert
    /\ ~d_cnav_decoder.part1_invert

\* C17: whatever happens to the dump file (never opened, failed to open, a
\* write failed), every general_work call emits, publishes and stores what a
\* decoder with dump disabled does from the same state and input; and a dump
\* record is attempted only in a call that emits a record.
C17_DumpIsolation ==
    [][(last_op' = "general_work")
       => LET fr == FrameUpdate(h_dec', d_TOW_at_current_symbol_ms,
                                d_flag_valid_word, d_last_valid_preamble,
                                d_sample_counter')
              nf == NoFrameUpdate(h_in', d_TOW_at_current_symbol_ms,
                                  d_flag_valid_word)
              tow == IF h_dec'.ok THEN fr.tow ELSE nf.tow
              valid == IF h_dec'.ok THEN fr.valid ELSE nf.valid
          IN  /\ d_TOW_at_current_symbol_ms' = tow
              /\ d_flag_valid_word' = valid
              /\ telemetry_to_trk'
                   = (IF TlmFailed(d_sample_counter', d_last_valid_preamble,
                                   d_sent_tlm_failed_msg)
                      THEN <<1>> ELSE <<>>)
              /\ telemetry'
                   = (IF h_dec'.ok
                      THEN PublishNavData(decode_page(d_CNAV_Message, h_dec'.page)).pub
                      ELSE <<>>)
              /\ out_items'
                   = (IF valid
                      THEN <<OutputRecord(h_in', tow, valid,
                                          d_flag_PLL_180_deg_phase_locked')>>
                      ELSE <<>>)
              /\ (dump_record' # "none" => d_dump /\ Emitted(out_items'))]_vars

\* C17 witness: with the dump file open, a write failed in a call that
\* emitted its record all the same.
C17_Witness ==
    /\ last_op = "general_work"
    /\ d_dump
    /\ d_dump_file = "open"
    /\ dump_record = "failed"
    /\ Emitted(out_items)
    /\ out_items[1].TOW_at_current_symbol_ms = d_TOW_at_current_symbol_ms
    /\ d_sample_counter > 1

\* The pages a message of each kind is assembled from.
PagesOf(kind) ==
    CASE kind = "ephemeris" -> {"eph1", "eph2"}
      [] kind = "iono" -> {"iono"}
      [] kind = "utc_model" -> {"utc"}

----------------------------------------------------------------------------
(* Properties of channel_status_msg_receiver *)

MapView(m) == [c \in DOMAIN m |-> IF m[c] = 0 THEN NoRec ELSE heap[m[c]]]

\* C14: when the handler has applied a record or a monitor snapshot equal to
\* the one applied just before it, the records of the channel map and the
\* stored monitor snapshot are what they were after that previous update.
C14_UpdateIdempotent ==
    \A t \in Writers :
        (/\ wpc[t] = "unlock"
         /\ wmsg[t].type \in {"synchro", "pvt"}
         /\ Content(wmsg[t]) = h_prev_msg)
        => /\ MapView(d_channel_status_map) = MapView(h_committed)
           /\ d_pvt_status = h_committed_pvt

\* C14 witness: a valid record was applied a second time, with a monitor
\* snapshot stored.
C14_Witness ==
    \E t \in Writers :
        /\ wpc[t] = "unlock"
        /\ wmsg[t].type = "synchro"
        /\ Content(wmsg[t]) = h_prev_msg
        /\ h_prev_msg.rec.Flag_valid_pseudorange
        /\ d_channel_status_map[0] = wmsg[t].ptr
        /\ h_committed[0] # wmsg[t].ptr
        /\ d_pvt_status.RX_time = 1

\* C15: get_current_status_pvt returns the Monitor_Pvt of the last Monitor_Pvt
\* message the handler has taken in, whole; and before any such message it
\* returns a snapshot whose RX_time is -1.
C15_MonitorSnapshot ==
    [][(rpc = "pvt_unlock" /\ rpc' = "idle")
       => /\ rret'.kind = "pvt"
          /\ (h_last_pvt # NoPvt => rret'.pvt = h_last_pvt)
          /\ (h_last_pvt = NoPvt => rret'.pvt.RX_time = -1)]_vars

\* C15 witness: the getter returned the snapshot of the last message taken
\* in, while a writer with a newer snapshot is still waiting for the mutex.
C15_Witness ==
    /\ rpc = "idle"
    /\ rret.kind = "pvt"
    /\ rret.pvt = h_last_pvt
    /\ rret.pvt.RX_time = 1
    /\ \E t \in Writers :
          wpc[t] = "lock" /\ wmsg[t].type = "pvt" /\ wmsg[t].val.RX_time = 2

\* C4: when msg_handler_events has processed a Gnss_Synchro message (it is
\* about to return), the map holds under the record's Channel_ID that very
\* record if its Flag_valid_pseudorange is true, put in or overwritten, and
\* holds no entry under that key if the flag is false.
C4_AggregatorUpdate ==
    \A t \in Writers :
        (wpc[t] = "unlock" /\ wmsg[t].type = "synchro")
        => LET rec == heap[wmsg[t].ptr]
               c == rec.Channel_ID
           IN  IF rec.Flag_valid_pseudorange
               THEN /\ c \in DOMAIN d_channel_status_map
                    /\ d_channel_status_map[c] = wmsg[t].ptr
                    /\ heap[d_channel_status_map[c]] = rec
               ELSE c \notin DOMAIN d_channel_status_map

\* C4 witness: an invalid update has just removed the entry that an earlier
\* valid update for the same channel had inserted.
C4_Witness ==
    \E t \in Writers :
        /\ wpc[t] = "unlock"
        /\ wmsg[t].type = "synchro"
        /\ ~heap[wmsg[t].ptr].Flag_valid_pseudorange
        /\ heap[wmsg[t].ptr].Channel_ID \in DOMAIN h_committed
        /\ heap[wmsg[t].ptr].Channel_ID \notin DOMAIN d_channel_status_map

\* C5: with writers running concurrently, every map get_current_status_map
\* returns is the map as it stood after a whole number of completed updates,
\* at some moment between the call and the return.
C5_SnapshotAtomic ==
    rret.kind = "map" => rret.map \in h_seen

\* C5 witness: a full map was returned by a call during which writers
\* completed updates that changed the map.
C5_Witness ==
    /\ rret.kind = "map"
    /\ DOMAIN rret.map = ChannelIDs
    /\ Cardinality(h_seen) >= 2

\* C6: the records of a returned map are copies of their own: whatever the
\* sender later does to the object it sent, their fields stay as they were
\* when the map was returned.
C6_SnapshotIndependent ==
    rret.kind = "map"
    => \A c \in DOMAIN rret.map : heap[rret.map[c]] = h_ret_vals[c]

----------------------------------------------------------------------------
(* Properties of Pvt_Solution *)

\* C18: a solve attempt with fewer than four usable satellites (exactly
\* three in particular) leaves is_valid_position() false and leaves the
\* position, the velocity, the clock offset and the averaged position as
\* the previous solution set them.
C18_MinimumSatelliteGate ==
    [][(pvt_op' = "solve_attempt" /\ d_valid_observations' < MinSatellites)
        => /\ ~b_valid_position'
           /\ UNCHANGED <<d_latitude_d, d_longitude_d, d_height_m, d_rx_vel,
                          d_rx_dt_s, d_avg_latitude_d, d_avg_longitude_d,
                          d_avg_height_m>>]_vars

\* A solve attempt with exactly three satellites has followed a valid
\* solution that had been averaged.
C18_Witness ==
    /\ pvt_op = "solve_attempt"
    /\ d_valid_observations = MinSatellites - 1
    /\ ~b_valid_position
    /\ d_latitude_d \in FixValues
    /\ d_rx_vel # 0
    /\ d_rx_dt_s # 0
    /\ d_avg_latitude_d[2] > 0

\* The part q of the fixes averaged so far that a window of depth n holds,
\* taken by one coordinate.
Window(fixes, n, coord(_)) ==
    [i \in 1..(IF Len(fixes) > n THEN n ELSE Len(fixes)) |->
        coord(fixes[i + (IF Len(fixes) > n THEN Len(fixes) - n ELSE 0)])]

Lat(fix) == fix.lat
Lon(fix) == fix.lon
Height(fix) == fix.h

\* Every entry of q is v.
AllEqual(q, v) == \A i \in 1..Len(q) : q[i] = v

\* C19: after any calls of perform_pos_averaging with depth D each history
\* holds at most D entries, they are the most recent fixes in the order of
\* arrival, the averaged position is the arithmetic mean of the window, and
\* D equal fixes average to that same value.
C19_AveragingWindow ==
    /\ Len(d_hist_latitude_d) <= AveragingDepth
    /\ Len(d_hist_longitude_d) <= AveragingDepth
    /\ Len(d_hist_height_m) <= AveragingDepth
    /\ d_hist_latitude_d = Window(h_fixes, AveragingDepth, Lat)
    /\ d_hist_longitude_d = Window(h_fixes, AveragingDepth, Lon)
    /\ d_hist_height_m = Window(h_fixes, AveragingDepth, Height)
    /\ d_avg_latitude_d = <<SumSeq(d_hist_latitude_d), Len(d_hist_latitude_d)>>
    /\ d_avg_longitude_d = <<SumSeq(d_hist_longitude_d), Len(d_hist_longitude_d)>>
    /\ d_avg_height_m = <<SumSeq(d_hist_height_m), Len(d_hist_height_m)>>
    /\ \A v \in FixValues :
           (Len(d_hist_latitude_d) = AveragingDepth
            /\ AllEqual(d_hist_latitude_d, v))
               => d_avg_latitude_d[1] = v * d_avg_latitude_d[2]

\* The fix after the window was full has arrived and the oldest fix, which
\* differs from those kept, is gone.
C19_Witness ==
    /\ pvt_op = "perform_pos_averaging"
    /\ Len(h_fixes) = AveragingDepth + 1
    /\ Len(d_hist_latitude_d) = AveragingDepth
    /\ \A i \in 1..Len(d_hist_latitude_d) :
           d_hist_latitude_d[i] # h_fixes[1].lat
    /\ d_hist_latitude_d[AveragingDepth] = h_fixes[AveragingDepth + 1].lat

----------------------------------------------------------------------------
(* Properties of Beidou_Dnav_Ephemeris *)

\* What is asked of the value check_t returns for the argument t.
Normalised(t, r) ==
    /\ Abs(r) <= half_week
    /\ (t - r) % (2 * half_week) = 0
    /\ (Abs(t) <= half_week => r = t)

\* C20: for every time difference t, check_t(t) lies within plus or minus
\* half a week, differs from t by a whole number of weeks, and is t itself
\* when t is already within that range.
C20_CheckTRange ==
    eph_pc = "done" => Normalised(eph_time, eph_corrTime)

\* C20, for the arguments one week rollover accounts for: for every time
\* difference t within a week and a half of zero, check_t(t) lies within
\* plus or minus half a week, differs from t by a whole number of weeks,
\* and is t itself when t is already within that range.
C20_CheckTOneRollover ==
    (eph_pc = "done" /\ Abs(eph_time) <= 3 * half_week)
        => Normalised(eph_time, eph_corrTime)

\* check_t has brought the most negative argument it can into the range.
C20_Witness ==
    /\ eph_pc = "done"
    /\ eph_time = -3 * half_week
    /\ eph_corrTime = -half_week

\* The loop starts from E = M, makes no more update steps than the ceiling,
\* makes none after the first step whose change is below the threshold, has
\* no error outcome, and the result is computed from the last iterate.
KeplerLoop ==
    /\ h_steps <= KeplerCeiling
    /\ kep_pc # "error"
    /\ (kep_pc = "loop" /\ h_steps = 0) => kep_E = kep_M
    /\ h_below <= 1
    /\ h_below = 1 =>
           (kep_pc \in {"break", "done"} /\ Abs(kep_dE) < KeplerThreshold)
    /\ kep_pc = "break" => h_below = 1
    /\ kep_pc = "done" =>
           kep_result = KeplerResult(kep_fn, d_eccentricity, kep_E)

\* C21: in satellitePosition and sv_clock_relativistic_term the loop starts
\* from E = M, makes no more than 20 update steps, stops at the first step
\* whose change is below the threshold, and in every case, the threshold
\* met or not, ends and returns a result computed from the last iterate,
\* with no error outcome.
C21_KeplerBounded == []KeplerLoop /\ <>(kep_pc = "done")

\* The loop ran to its bound without meeting the threshold and the function
\* returned.
C21_Witness ==
    /\ kep_pc = "done"
    /\ h_below = 0
    /\ h_steps = KeplerCeiling - 1
    /\ kep_result # <<>>

----------------------------------------------------------------------------
(* Further properties of gps_l5_telemetry_decoder_gs *)

\* C22: a completed frame is accepted (valid-word flag true, baseline at the
\* current sample counter, stored TOW = msg.tow * 6000 + (delay + 12) symbol
\* periods) exactly when the stored TOW is 0 or the projected TOW is within
\* one symbol period of the stored TOW, whatever Flag_valid_symbol_output
\* the input sample has.
C22_LockAcquisition ==
    [][(last_op' = "general_work" /\ h_dec'.ok)
         => LET new == (h_dec'.tow * 6000)
                         + ((h_dec'.delay + 12) * GPS_L5I_SYMBOL_PERIOD_MS)
                consistent ==
                    \/ d_TOW_at_current_symbol_ms = 0
                    \/ /\ new - d_TOW_at_current_symbol_ms
                            <= GPS_L5I_SYMBOL_PERIOD_MS
                       /\ d_TOW_at_current_symbol_ms - new
                            <= GPS_L5I_SYMBOL_PERIOD_MS
                accepted ==
                    /\ d_flag_valid_word'
                    /\ d_last_valid_preamble' = d_sample_counter'
                    /\ d_TOW_at_current_symbol_ms' = new
            IN  /\ consistent <=> accepted
                /\ consistent <=> d_flag_valid_word']_vars

\* A frame was accepted in a call whose input sample was not flagged valid,
\* after at least one earlier call.
C22_Witness ==
    /\ last_op = "general_work"
    /\ h_dec.ok
    /\ ~h_in.Flag_valid_symbol_output
    /\ d_flag_valid_word
    /\ d_last_valid_preamble = d_sample_counter
    /\ d_TOW_at_current_symbol_ms = ProjectedTOW(h_dec.tow, h_dec.delay)
    /\ d_sample_counter >= 2
    /\ d_TOW_at_Preamble_ms = h_dec.tow * 6000

----------------------------------------------------------------------------
(* Further properties of channel_status_msg_receiver *)

\* The threads inside a critical section: past the lock, not yet returned.
InCritical ==
    {t \in Writers : wpc[t] \in {"dispatch", "assign", "unlock"}}
        \cup (IF rpc \in {"map_copy", "map_unlock", "pvt_unlock"}
              THEN {Reader} ELSE {})

\* d_setlock is held by exactly the threads inside their critical section,
\* and never by two.
LockDiscipline ==
    /\ d_setlock = InCritical
    /\ Cardinality(InCritical) <= 1

----------------------------------------------------------------------------
(* Further properties of gps_l5_telemetry_decoder_gs: output and frame *)

\* C24: every general_work call consumes exactly one input sample and adds
\* exactly one to the sample counter; it emits one record if the valid-word
\* flag is true at the end of the call and nothing otherwise; every record
\* emitted has Flag_valid_word true and a non-zero TOW equal to the stored
\* TOW; and in every reachable state a true valid-word flag implies a
\* non-zero stored TOW.
C24_OutputGating ==
    /\ [](d_flag_valid_word => d_TOW_at_current_symbol_ms # 0)
    /\ [][last_op' = "general_work"
            => /\ consumed_items' = consumed_items + 1
               /\ d_sample_counter' = d_sample_counter + 1
               /\ Len(out_items') = (IF d_flag_valid_word' THEN 1 ELSE 0)
               /\ \A i \in 1..Len(out_items') :
                      /\ out_items'[i].Flag_valid_word
                      /\ out_items'[i].TOW_at_current_symbol_ms # 0
                      /\ out_items'[i].TOW_at_current_symbol_ms
                           = d_TOW_at_current_symbol_ms']_vars

\* A call that completed no frame emitted a record, and the call before it
\* accepted the frame with the least projected TOW.
C24_Witness ==
    /\ last_op = "general_work"
    /\ ~h_dec.ok
    /\ Len(out_items) = 1
    /\ out_items[1].TOW_at_current_symbol_ms
         = ProjectedTOW(0, 0) + GPS_L5I_SYMBOL_PERIOD_MS
    /\ consumed_items = 2

\* The decoder holds a TOW it no longer vouches for.
StaleTOW == ~d_flag_valid_word /\ d_TOW_at_current_symbol_ms # 0

\* C25: when validity is dropped because an input sample had
\* Flag_valid_symbol_output false, the stored TOW keeps its last non-zero
\* value and is not moved on later symbols while invalid; the next completed
\* frame is checked against that value and is rejected (TOW 0, nothing
\* emitted) when its projected TOW is more than one symbol period away; and
\* records are then emitted again only after a further completed frame.
C25_StaleTOW ==
    [][/\ (~StaleTOW /\ StaleTOW')
            => /\ last_op' = "general_work"
               /\ ~h_dec'.ok
               /\ ~h_in'.Flag_valid_symbol_output
               /\ d_flag_valid_word
               /\ d_TOW_at_current_symbol_ms'
                    = d_TOW_at_current_symbol_ms + GPS_L5I_SYMBOL_PERIOD_MS
       /\ (StaleTOW /\ last_op' = "general_work" /\ ~h_dec'.ok)
            => /\ StaleTOW'
               /\ d_TOW_at_current_symbol_ms' = d_TOW_at_current_symbol_ms
               /\ out_items' = <<>>
       /\ (/\ StaleTOW
           /\ last_op' = "general_work"
           /\ h_dec'.ok
           /\ Abs(ProjectedTOW(h_dec'.tow, h_dec'.delay)
                    - d_TOW_at_current_symbol_ms) > GPS_L5I_SYMBOL_PERIOD_MS)
            => /\ d_TOW_at_current_symbol_ms' = 0
               /\ ~d_flag_valid_word'
               /\ out_items' = <<>>
       /\ (~d_flag_valid_word /\ out_items' # <<>>)
            => (last_op' = "general_work" /\ h_dec'.ok)]_vars

\* Validity was dropped earlier and a later symbol, itself flagged valid,
\* has left the stored TOW where it was.
C25_Witness ==
    /\ StaleTOW
    /\ last_op = "general_work"
    /\ ~h_dec.ok
    /\ h_in.Flag_valid_symbol_output
    /\ h_accepted

\* C26: in a general_work call that completes a frame the page is fed to
\* the assembler and every message it completes is published before the TOW
\* check, so they are published also when the frame's TOW is rejected and
\* the symbol marked invalid.
C26_PublicationBeforeTowCheck ==
    [][(last_op' = "general_work" /\ h_dec'.ok)
         => /\ h_dec'.page \in h_pages'
            /\ d_CNAV_Message' = PublishNavData(decode_page(d_CNAV_Message,
                                                            h_dec'.page)).msg
            /\ \A k \in NavKinds :
                   (Ready(decode_page(d_CNAV_Message, h_dec'.page), k)
                    /\ ~Ready(d_CNAV_Message, k))
                       <=> (\E i \in 1..Len(telemetry') : telemetry'[i] = k)]_vars

\* The frame that completed the ephemeris was rejected by the TOW check and
\* the ephemeris was published all the same.
C26_Witness ==
    /\ last_op = "general_work"
    /\ h_dec.ok
    /\ h_accepted
    /\ ~d_flag_valid_word
    /\ d_TOW_at_current_symbol_ms = 0
    /\ out_items = <<>>
    /\ telemetry = <<"ephemeris">>

C28_SetSatelliteFrame ==
    /\ [][last_op' = "set_satellite"
            => /\ d_satellite' \in PRNs
               /\ d_CNAV_Message' = Gps_CNAV_Navigation_Message
               /\ UNCHANGED <<d_TOW_at_current_symbol_ms, d_flag_valid_word,
                              d_sent_tlm_failed_msg, d_last_valid_preamble,
                              d_sample_counter, d_flag_PLL_180_deg_phase_locked,
                              d_cnav_decoder, d_TOW_at_Preamble_ms, d_channel,
                              d_dump, d_dump_file>>]_vars
    /\ [][(/\ last_op = "set_satellite"
           /\ d_flag_valid_word
           /\ last_op' = "general_work"
           /\ ~h_dec'.ok
           /\ h_in'.Flag_valid_symbol_output)
            => /\ Len(out_items') = 1
               /\ out_items'[1].TOW_at_current_symbol_ms
                    = d_TOW_at_current_symbol_ms + GPS_L5I_SYMBOL_PERIOD_MS
               /\ out_items'[1].Flag_valid_word]_vars

\* The decoder locked on satellite 1, was given satellite 2, and without a
\* frame since then has emitted a record that carries the TOW extrapolated
\* from satellite 1 and the polarity correction found there.
C28_Witness ==
    /\ last_op = "general_work"
    /\ d_satellite = 2
    /\ h_dropped # {}
    /\ h_pages = {}
    /\ d_flag_PLL_180_deg_phase_locked
    /\ Len(out_items) = 1
    /\ out_items[1].TOW_at_current_symbol_ms
         = ProjectedTOW(0, 0) + GPS_L5I_SYMBOL_PERIOD_MS

----------------------------------------------------------------------------
(* Frame properties of channel_status_msg_receiver *)

\* The entry of channel k in the map m, or -1 if there is none.
MapEntry(m, k) == IF k \in DOMAIN m THEN m[k] ELSE -1

\* C29: a Gnss_Synchro update for channel c leaves the entries of every
\* other channel and the stored PVT snapshot unchanged; a Monitor_Pvt update
\* leaves the whole channel map unchanged; get_current_status_map and
\* get_current_status_pvt change nothing.
C29_AggregatorFrame ==
    [][/\ \A t \in Writers :
            (wpc[t] \in {"dispatch", "assign", "unlock"} /\ wpc'[t] # wpc[t])
              => /\ wmsg[t].type = "synchro"
                    => /\ d_pvt_status' = d_pvt_status
                       /\ \A k \in ChannelIDs \ {heap[wmsg[t].ptr].Channel_ID} :
                              MapEntry(d_channel_status_map', k)
                                = MapEntry(d_channel_status_map, k)
                 /\ wmsg[t].type = "pvt"
                    => d_channel_status_map' = d_channel_status_map
                 /\ heap' = heap
       /\ <<rpc, rlast, rcopy, rret>>' # <<rpc, rlast, rcopy, rret>>
            => UNCHANGED <<d_channel_status_map, d_pvt_status, heap>>]_vars

\* An update for channel 0 is complete; the entry of channel 1 and a PVT
\* snapshot stored earlier are in place.
C29_Witness ==
    /\ wpc[FrameWriter] = "unlock"
    /\ wmsg[FrameWriter].type = "synchro"
    /\ heap[wmsg[FrameWriter].ptr].Channel_ID = 0
    /\ 0 \in DOMAIN d_channel_status_map
    /\ 1 \in DOMAIN d_channel_status_map
    /\ d_pvt_status \in MsgPvts

----------------------------------------------------------------------------
(* Properties of GlonassL1CaDllPllTracking *)

\* C30: for every configured item type, once the constructor has run the
\* adapter holds a tracking block, so neither the constructor nor
\* set_channel, start_tracking, set_gnss_synchro, get_left_block and
\* get_right_block work on an absent block.
C30_AlwaysHasBlock ==
    trk_pc # "new"
        => /\ tracking_ = "block"
           /\ trk_pc = "ready"
           /\ trk_ret \in {"none", "block"}

====
